---------------------------- MODULE Spec2Model ----------------------------
(***************************************************************************)
(* The gateway client of quant (src/quant/impl/core/gateway.py) as a state *)
(* machine.  The asyncio tasks of one Gateway object (the task running     *)
(* start() and keep_alive_check(), the read_websocket() tasks and the      *)
(* send_heartbeat() chains) are the entries of `tasks`; every action is    *)
(* the code one task runs between two suspension points (an await that     *)
(* really suspends: ws_connect, ws close, sleep, the next frame, the event *)
(* sink).  Time is the value of time.perf_counter() in milliseconds.       *)
(***************************************************************************)
EXTENDS Integers, Sequences, FiniteSets, TLC

\* ------------------------------------------------------------------ bounds
\* how many sockets ws_connect may open in one run
MaxConns == 2
\* how many frames the server sends in one run
MaxFrames == 3
\* how many times the clock moves to the next timer in one run
MaxAdvance == 5

\* --------------------------------------------------------------- constants
\* Python's None where the code holds an optional integer
None == -1
\* a JSON null where the code holds an optional string
Null == "null"

DISPATCH == 0
HEARTBEAT == 1
IDENTIFY == 2
RESUME == 6
RECONNECT == 7
INVALID_SESSION == 9
HELLO == 10
HEARTBEAT_ACK == 11
\* the members of OpCode: OpCode(op) raises ValueError for anything else
OpCode == {0, 1, 2, 3, 4, 6, 7, 8, 9, 10, 11}

ZLIB_SUFFIX == <<0, 0, 255, 255>>

\* asyncio.sleep(20) of keep_alive_check, in milliseconds
KeepAliveSleep == 20000
\* one_minute of keep_alive_check, in milliseconds
OneMinute == 60000
\* the close code keep_alive_check and INVALID_SESSION close and reconnect with
ReconnectCode == 4000
\* the close code the RECONNECT handler passes to close()
RestartCode == 1012
\* the only code error_reconnect resumes on
ResumeCode == 4009

\* ------------------------------------------------------------------- state
VARIABLES
    now,                \* time.perf_counter(), milliseconds
    ticks,              \* how many times the clock has moved
    socks,              \* every socket ws_connect returned: [closed, close_code]
    cur,                \* self.websocket_connection: an index of socks, 0 for None
    ws_connected,       \* self.ws_connected
    sequence,           \* self.sequence
    session_id,         \* self.session_id
    previous_heartbeat, \* self._previous_heartbeat, milliseconds
    latency,            \* self.latency, milliseconds
    buffer,             \* self.buffer
    zlib,               \* self.zlib_decompressed_object: [id, ctx]
    tasks,              \* the asyncio tasks: [pc, it, wake, interval]
    sent,               \* every frame the client wrote, in order
    sink,               \* every call of event_controller.dispatch, in order
    rx,                 \* every frame handed to on_websocket_message, in order
    reconnects,         \* every call of error_reconnect, in order
    unacked,            \* when the oldest heartbeat not yet acknowledged was sent
    wire,               \* the compressed messages the server sends in chunks:
                        \* [msgs, chunks], chunks being those still to deliver
    mobile_status,      \* self._mobile_status
    cache               \* every call of event_factory.cache_item, in order

vars == <<now, ticks, socks, cur, ws_connected, sequence, session_id,
          previous_heartbeat, latency, buffer, zlib, tasks, sent, sink, rx,
          reconnects, unacked, wire, mobile_status, cache>>


\* ------------------------------------------------------- JSON and payloads
\* A JSON text is the sequence of its <<key, value>> members, in order;
\* the text that is no JSON document is the empty one.
InvalidText == <<>>

Keys(text) == {text[j][1] : j \in DOMAIN text}

\* json.loads: the dict of a text (the last member of a key wins)
json_loads(text) ==
    [k \in Keys(text) |->
        text[CHOOSE j \in DOMAIN text :
                /\ text[j][1] = k
                /\ \A m \in DOMAIN text : text[m][1] = k => m <= j][2]]

\* json.dumps of a dict built by inserting the members in this order
json_dumps(members) == members

\* Gateway.create_payload: "s" and "t" are added for DISPATCH only, so the
\* sequence argument is dropped for every other opcode
create_payload(op, data, seq, event_name) ==
    IF op = DISPATCH
    THEN json_dumps(<<<<"op", op>>, <<"d", data>>, <<"s", seq>>, <<"t", event_name>>>>)
    ELSE json_dumps(<<<<"op", op>>, <<"d", data>>>>)

\* what the server writes: the wire envelope {"op", "d", "s", "t"}
Envelope(op, d, s, t) == <<<<"op", op>>, <<"d", d>>, <<"s", s>>, <<"t", t>>>>

\* the "browser" property of lines 88-90
Browser(mobile) == IF mobile THEN "Discord iOS" ELSE "quant"

\* self.raw_payload, built once by __init__, which has just set
\* _mobile_status to False (line 71)
raw_payload ==
    [token |-> "token",
     properties |-> [os |-> "platform", browser |-> Browser(FALSE),
                     device |-> "quant"],
     shard |-> <<0, 1>>, large_threshold |-> 250, intents |-> "intents"]

\* identify_payload as it would be if the descriptor were rebuilt from
\* _mobile_status on every read
identify_payload_rebuilt ==
    [raw_payload EXCEPT !.properties.browser = Browser(mobile_status)]

\* the identify_payload property: attrs.asdict(self.raw_payload)
identify_payload == raw_payload

\* ------------------------------------------------------------ zlib stream
\* The texts the server compresses; a compressed message names one of them.
Catalog ==
    <<Envelope(HELLO, 41250, None, Null),
      Envelope(DISPATCH, 101, 1, "READY"),
      Envelope(DISPATCH, 102, 2, "MESSAGE_CREATE")>>

\* The server's deflate stream, flushed with Z_SYNC_FLUSH after each message:
\* message f written as the (ctx+1)-th message of the stream is two bytes that
\* depend on the text and on the stream's history, then the flush marker.
Deflate(f, ctx) == <<16 + f, 32 + ctx>> \o ZLIB_SUFFIX

\* len(ZLIB_SUFFIX)
SuffixLen == 4
\* the length of one compressed message
MsgLen == 6

Last4(b) == SubSeq(b, Len(b) - 3, Len(b))

\* zlib.decompressobj(): a new inflate stream
decompressobj(id) == [id |-> id, ctx |-> 0]

\* an inflate stream that met bad data stays in its error state
Broken == -1

\* decompressobj.decompress(buf): inflates every message of buf in order;
\* a message inflates only on the stream position it was deflated for.
\* Returns the texts inflated, the stream afterwards and whether zlib.error
\* was raised.
RECURSIVE Inflate(_, _, _)
Inflate(z, buf, out) ==
    IF Len(buf) = 0 THEN [zlib |-> z, out |-> out, error |-> FALSE]
    ELSE IF /\ z.ctx # Broken
            /\ Len(buf) >= MsgLen
            /\ SubSeq(buf, 3, MsgLen) = ZLIB_SUFFIX
            /\ buf[1] - 16 \in DOMAIN Catalog
            /\ buf[2] = 32 + z.ctx
         THEN Inflate([z EXCEPT !.ctx = z.ctx + 1],
                      SubSeq(buf, MsgLen + 1, Len(buf)),
                      Append(out, buf[1] - 16))
         ELSE [zlib |-> [z EXCEPT !.ctx = Broken], out |-> out, error |-> TRUE]

decompress(z, buf) == Inflate(z, buf, <<>>)

\* bytes.decode("utf8") of the inflated bytes: one message is its text, and
\* anything else (nothing, or several documents back to back) is a string
\* json.loads rejects
decode(out) == IF Len(out) = 1 THEN Catalog[out[1]] ELSE InvalidText

\* ---------------------------------------------------- on_websocket_message
\* received_data is [bytes |-> BOOLEAN, body |-> a JSON text or a byte string].
\* The result: the buffer and the inflate stream afterwards, and how the call
\* went up to line 204: "return" (line 193), "raise" (an exception leaves
\* the method) or "ok" with the dict, op and sequence read.
Parsed(buf, z, text) ==
    IF text = InvalidText
    THEN [buffer |-> buf, zlib |-> z, status |-> "raise"]
    ELSE LET received_data == json_loads(text) IN
         IF "op" \notin DOMAIN received_data \/ "s" \notin DOMAIN received_data
         THEN [buffer |-> buf, zlib |-> z, status |-> "raise"]
         ELSE [buffer |-> buf, zlib |-> z, status |-> "ok",
               received_data |-> received_data,
               op |-> received_data["op"], sequence |-> received_data["s"]]

\* line 192: the test looks at the chunk just received
ChunkIncomplete(received_data) ==
    Len(received_data) < SuffixLen \/ Last4(received_data) # ZLIB_SUFFIX

on_websocket_message(buf, z, received_data) ==
    IF received_data.bytes
    THEN LET extended == buf \o received_data.body IN
         IF ChunkIncomplete(received_data.body)
         THEN [buffer |-> extended, zlib |-> z, status |-> "return"]
         ELSE LET r == decompress(z, extended) IN
              IF r.error
              THEN [buffer |-> extended, zlib |-> r.zlib, status |-> "raise"]
              ELSE Parsed(<<>>, r.zlib, decode(r.out))
    ELSE Parsed(buf, z, received_data.body)

\* ------------------------------------------------------------------ tasks
\* A task is [pc, it, cl, wake, interval]:
\*   pc        where the task is suspended
\*   it        the socket its `async for` iterates (read_websocket), the
\*             socket whose HELLO started it (send_heartbeat), else 0
\*   cl        the socket whose close() it awaits, else 0
\*   wake      when its asyncio.sleep ends
\*   interval  the argument of its send_heartbeat / send_hello, or the code
\*             of a close() called from outside
Task(pc, it, cl, wake, interval) ==
    [pc |-> pc, it |-> it, cl |-> cl, wake |-> wake, interval |-> interval]

Done == Task("done", 0, 0, 0, 0)

\* pcs suspended in asyncio.sleep
TimerPcs == {"keep_alive", "send_hello", "send_heartbeat"}

Socket == [closed |-> FALSE, close_code |-> None, local_code |-> None]

Max(a, b) == IF a >= b THEN a ELSE b

\* send_hello line 299: interval = d / 1000 seconds, and the sleep is
\* (interval - 2000) / 1000 seconds, that is d / 1000 - 2000 milliseconds;
\* asyncio.sleep of a delay <= 0 only yields
HelloDelay(d) == Max(0, (d \div 1000) - 2000)

\* send_heartbeat line 294: sleep(interval) with interval = d / 1000 seconds
HeartbeatDelay(d) == d

\* keep_alive_check line 232
Stale(prev, t) == prev + OneMinute < t

\* a frame written with _send, as the server sees it
Sent(data) ==
    [sock |-> cur, data |-> data, at |-> now, sequence |-> sequence,
     session_id |-> session_id, mobile |-> mobile_status]

\* a call of error_reconnect(code) made from `by`
Reconnect(code, by) ==
    [code |-> code, by |-> by, sock |-> cur, at |-> now,
     prev |-> previous_heartbeat, unacked |-> unacked]

\* ------------------------------------------------------------------- Init
\* The Gateway as __init__ leaves it, with start() called on it: the one task
\* awaits ws_connect.  time.perf_counter() has no defined origin: it starts
\* anywhere.
ClockOrigins == {0, 100000}

InitGateway ==
    /\ ticks = 0
    /\ socks = <<>>
    /\ cur = 0
    /\ ws_connected = FALSE
    /\ sequence = None
    /\ session_id = None
    /\ previous_heartbeat = 0
    /\ latency = None
    /\ buffer = <<>>
    /\ zlib = decompressobj(0)
    /\ sent = <<>>
    /\ sink = <<>>
    /\ rx = <<>>
    /\ reconnects = <<>>
    /\ unacked = None
    /\ mobile_status = FALSE
    /\ cache = <<>>

Init ==
    /\ InitGateway
    /\ now \in ClockOrigins
    /\ tasks = <<Task("ws_connect", 0, 0, 0, 0)>>
    /\ wire = [msgs |-> <<>>, chunks |-> <<>>]

\* --------------------------------------------------------- start (161-177)
\* send_identify(resume=False), line 273
send_identify ==
    Sent(create_payload(IDENTIFY, identify_payload, None, Null))

\* A task created and not yet run, or whose sleep has ended, is in the loop's
\* ready queue: it runs before the clock moves and before a connection
\* attempt, which takes several turns of the loop, can complete.
Ready(i) ==
    \/ tasks[i].pc = "created"
    \/ tasks[i].pc \in TimerPcs /\ tasks[i].wake <= now

\* ws_connect returned: lines 165-177 run to the sleep of keep_alive_check.
\* _send does not suspend: send_str of a short text writes through.
start(i) ==
    /\ tasks[i].pc = "ws_connect"
    /\ \A j \in DOMAIN tasks : ~Ready(j)
    /\ Len(socks) < MaxConns
    /\ socks' = Append(socks, Socket)
    /\ cur' = Len(socks) + 1
    /\ ws_connected' = TRUE
    /\ zlib' = decompressobj(zlib.id + 1)
    /\ buffer' = <<>>
    /\ sent' = Append(sent, [send_identify EXCEPT !.sock = Len(socks) + 1])
    /\ tasks' = Append([tasks EXCEPT ![i] = Task("keep_alive", tasks[i].it, 0,
                                                 now + KeepAliveSleep, 0)],
                       Task("created", 0, 0, 0, 0))
    /\ unacked' = None
    /\ UNCHANGED <<now, ticks, sequence, session_id, previous_heartbeat,
                   latency, sink, rx, reconnects, wire, mobile_status, cache>>

\* ------------------------------------------------ read_websocket (236-251)
\* Line 237 on: `while self.ws_connected`, then `async for` over the socket
\* websocket_connection names now.  receive() on a socket another task is
\* receiving from raises RuntimeError, which ends this task; on a socket
\* that is closed it returns at once and line 248 reads close_code.
ReadLoop(i, ts, ss, c, w) ==
    IF ~w THEN Done
    ELSE IF ss[c].closed
         THEN IF ss[c].close_code # None THEN Done
              ELSE Task("receive", c, 0, 0, 0)
         ELSE IF \E j \in DOMAIN ts : j # i /\ ts[j].pc = "receive" /\ ts[j].it = c
              THEN Done
              ELSE Task("receive", c, 0, 0, 0)

\* Lines 248-251, after the `async for` ended
AfterFor(i, ts, ss, c, w) ==
    IF ss[c].close_code # None THEN Done ELSE ReadLoop(i, ts, ss, c, w)

\* the first run of a read_websocket task
read_websocket(i) ==
    /\ tasks[i].pc = "created"
    /\ tasks' = [tasks EXCEPT ![i] = ReadLoop(i, tasks, socks, cur, ws_connected)]
    /\ UNCHANGED <<now, ticks, socks, cur, ws_connected, sequence, session_id,
                   previous_heartbeat, latency, buffer, zlib, sent, sink, rx,
                   reconnects, unacked, wire, mobile_status, cache>>

\* the socket being iterated was closed by this client: the `async for` ends
SeesClosed(i) ==
    /\ tasks[i].pc = "receive"
    /\ socks[tasks[i].it].closed
    /\ AfterFor(i, tasks, socks, cur, ws_connected) # tasks[i]
    /\ tasks' = [tasks EXCEPT ![i] = AfterFor(i, tasks, socks, cur, ws_connected)]
    /\ UNCHANGED <<now, ticks, socks, cur, ws_connected, sequence, session_id,
                   previous_heartbeat, latency, buffer, zlib, sent, sink, rx,
                   reconnects, unacked, wire, mobile_status, cache>>

Get(dict, k, default) == IF k \in DOMAIN dict THEN dict[k] ELSE default

\* what rx keeps of a frame
Rx(i, op, s, t, d) ==
    [sock |-> tasks[i].it, at |-> now, op |-> op, s |-> s, t |-> t, d |-> d]

\* the server closed the socket with `code`: receive() stores close_code and
\* closes the socket, and the `async for` ends
RemoteClose(i, code) ==
    /\ tasks[i].pc = "receive"
    /\ ~socks[tasks[i].it].closed
    /\ rx' = Append(rx, Rx(i, None, None, Null, code))
    /\ socks' = [socks EXCEPT ![tasks[i].it].closed = TRUE,
                              ![tasks[i].it].close_code = code]
    /\ tasks' = [tasks EXCEPT ![i] = AfterFor(i, tasks, socks', cur, ws_connected)]
    /\ UNCHANGED <<now, ticks, cur, ws_connected, sequence, session_id,
                   previous_heartbeat, latency, buffer, zlib, sent, sink,
                   reconnects, unacked, wire, mobile_status, cache>>

\* --------------------------------------------- _validate_opcode (208-225)
\* What one frame does to the state, up to the handler's first suspension.
Effect(q, l, ts, k, ss, w, b, r, u) ==
    /\ sequence' = q
    /\ latency' = l
    /\ tasks' = ts
    /\ sink' = k
    /\ socks' = ss
    /\ ws_connected' = w
    /\ buffer' = b
    /\ reconnects' = r
    /\ unacked' = u

\* Raised as it would be without the try / except of lines 241-244: the
\* exception ends the read loop
Raised_uncaught(buf) ==
    Effect(sequence, latency,
           [j \in DOMAIN tasks |->
               IF tasks[j].pc = "receive" THEN Done ELSE tasks[j]],
           sink, socks, ws_connected, buf, reconnects, unacked)

\* an exception left the handler: read_websocket prints it (243-244);
\* buf is the buffer on_websocket_message left
Raised(buf) ==
    Effect(sequence, latency, tasks, sink, socks, ws_connected, buf,
           reconnects, unacked)

\* Ignored as it would be if the opcode fell through to the HEARTBEAT_ACK
\* case (line 223)
Ignored_as_ack(buf) ==
    Effect(sequence, now - previous_heartbeat, tasks, sink, socks,
           ws_connected, buf, reconnects, unacked)

\* no case of the match statement fits: nothing happens
Ignored(buf) ==
    Effect(sequence, latency, tasks, sink, socks, ws_connected, buf,
           reconnects, unacked)

\* `await self.websocket_connection.close(code=code)`: on a closed socket it
\* returns at once; otherwise the socket is closed from now on and the task
\* waits for the closing handshake.
WsCloseReturns == socks[cur].closed
WsClosing(code) ==
    [socks EXCEPT ![cur].closed = TRUE, ![cur].local_code = code]

\* error_reconnect(4000) from line 185: not the resume code, so
\* ws_connected = False and start() awaits ws_connect
Reconnecting(i) == Task("ws_connect", tasks[i].it, 0, 0, 0)

\* Line 215, the call event_factory.cache_item(t, **d): it is reached by a
\* DISPATCH whose int(sequence) succeeded and that has "t" and "d", and the
\* `**` of a null payload raises TypeError before the cache is touched
cache_item(i, op, seq, received_data) ==
    IF /\ op = DISPATCH
       /\ seq # None
       /\ "t" \in DOMAIN received_data
       /\ "d" \in DOMAIN received_data
       /\ received_data["d"] # None
    THEN Append(cache, [event |-> received_data["t"],
                        payload |-> received_data["d"],
                        s |-> seq, sock |-> tasks[i].it])
    ELSE cache

\* Dispatch as it would be if line 211 came after the cache update: a
\* failure of line 215 leaves the stored sequence as it was
Dispatch_cache_first(i, seq, received_data, buf) ==
    IF \/ seq = None
       \/ "t" \notin DOMAIN received_data
       \/ "d" \notin DOMAIN received_data
       \/ received_data["d"] = None
    THEN Raised(buf)
    ELSE Effect(seq, latency,
                [tasks EXCEPT ![i].pc = "dispatch"],
                Append(sink, [event |-> received_data["t"],
                              payload |-> received_data["d"],
                              s |-> seq, sock |-> tasks[i].it]),
                socks, ws_connected, buf, reconnects, unacked)

\* case OpCode.DISPATCH, lines 211-216, up to the await of the event sink:
\* int(None) raises before the assignment, a missing "t" or "d" and the
\* `**` of a null payload raise after it
Dispatch(i, seq, received_data, buf) ==
    IF seq = None THEN Raised(buf)
    ELSE IF \/ "t" \notin DOMAIN received_data
            \/ "d" \notin DOMAIN received_data
            \/ received_data["d"] = None
    THEN Effect(seq, latency, tasks, sink, socks, ws_connected, buf,
                reconnects, unacked)
    ELSE Effect(seq, latency,
                [tasks EXCEPT ![i].pc = "dispatch"],
                Append(sink, [event |-> received_data["t"],
                              payload |-> received_data["d"],
                              s |-> seq, sock |-> tasks[i].it]),
                socks, ws_connected, buf, reconnects, unacked)

\* case OpCode.INVALID_SESSION, lines 218-219
InvalidSession(i, buf) ==
    IF WsCloseReturns
    THEN Effect(sequence, latency, [tasks EXCEPT ![i] = Reconnecting(i)],
                sink, socks, FALSE, buf,
                Append(reconnects, Reconnect(ReconnectCode, "_validate_opcode")),
                unacked)
    ELSE Effect(sequence, latency,
                [tasks EXCEPT ![i].pc = "closing_session", ![i].cl = cur],
                sink, WsClosing(ReconnectCode), ws_connected, buf,
                reconnects, unacked)

\* case OpCode.HELLO, line 221, and send_hello up to its sleep
Hello(i, received_data, buf) ==
    IF "d" \notin DOMAIN received_data \/ received_data["d"] = None
    THEN Raised(buf)
    ELSE Effect(sequence, latency,
                [tasks EXCEPT ![i].pc = "send_hello",
                              ![i].wake = now + HelloDelay(received_data["d"]),
                              ![i].interval = received_data["d"]],
                sink, socks, ws_connected, buf, reconnects, unacked)

\* case OpCode.RECONNECT, line 225, and close(1012) up to its await
Reconnected(i, buf) ==
    IF WsCloseReturns
    THEN Effect(sequence, latency, tasks, sink, socks, FALSE, <<>>,
                reconnects, unacked)
    ELSE Effect(sequence, latency,
                [tasks EXCEPT ![i].pc = "close", ![i].cl = cur],
                sink, WsClosing(RestartCode), FALSE, buf, reconnects, unacked)

validate_opcode(i, op, seq, received_data, buf) ==
    IF op \notin OpCode THEN Raised(buf)
    ELSE IF op = DISPATCH THEN Dispatch(i, seq, received_data, buf)
    ELSE IF op = INVALID_SESSION THEN InvalidSession(i, buf)
    ELSE IF op = HELLO THEN Hello(i, received_data, buf)
    ELSE IF op = HEARTBEAT_ACK
    THEN Effect(sequence, now - previous_heartbeat, tasks, sink, socks,
                ws_connected, buf, reconnects, None)
    ELSE IF op = RECONNECT THEN Reconnected(i, buf)
    ELSE Ignored(buf)

\* One frame arrives on the socket task i iterates: lines 242, 188-206 and
\* the handler up to its first suspension.
Receive(i, received_data) ==
    /\ tasks[i].pc = "receive"
    /\ ~socks[tasks[i].it].closed
    /\ LET m == on_websocket_message(buffer, zlib, received_data) IN
        /\ zlib' = m.zlib
        /\ IF m.status = "ok"
           THEN /\ validate_opcode(i, m.op, m.sequence, m.received_data, m.buffer)
                /\ cache' = cache_item(i, m.op, m.sequence, m.received_data)
                /\ rx' = Append(rx, Rx(i, m.op, m.sequence,
                                       Get(m.received_data, "t", Null),
                                       Get(m.received_data, "d", None)))
           ELSE /\ Raised(m.buffer)
                /\ cache' = cache
                /\ rx' = Append(rx, Rx(i, None, None, Null, None))
    /\ UNCHANGED <<now, ticks, cur, session_id, previous_heartbeat, sent,
                   mobile_status>>

\* event_controller.dispatch returned, or raised (243-244): back to line 238
DispatchReturns(i) ==
    /\ tasks[i].pc = "dispatch"
    /\ tasks' = [tasks EXCEPT ![i].pc = "receive"]
    /\ UNCHANGED <<now, ticks, socks, cur, ws_connected, sequence, session_id,
                   previous_heartbeat, latency, buffer, zlib, sent, sink, rx,
                   reconnects, unacked, wire, mobile_status, cache>>

\* send_hello line 301, after its sleep: the first send_heartbeat task
send_hello(i) ==
    /\ tasks[i].pc = "send_hello"
    /\ tasks[i].wake <= now
    /\ tasks' = Append([tasks EXCEPT ![i].pc = "receive", ![i].wake = 0,
                                     ![i].interval = 0],
                       Task("send_heartbeat", tasks[i].it, 0, now, tasks[i].interval))
    /\ UNCHANGED <<now, ticks, socks, cur, ws_connected, sequence, session_id,
                   previous_heartbeat, latency, buffer, zlib, sent, sink, rx,
                   reconnects, unacked, wire, mobile_status, cache>>

\* the HEARTBEAT frame of line 291
Heartbeat == Sent(create_payload(HEARTBEAT, None, sequence, Null))

\* send_heartbeat (287-295): one run of the chain, from the task's start to
\* its sleep; line 295 starts the next run when the sleep ends
send_heartbeat(i) ==
    /\ tasks[i].pc = "send_heartbeat"
    /\ tasks[i].wake <= now
    /\ IF socks[cur].closed
       THEN /\ tasks' = [tasks EXCEPT ![i] = Done]
            /\ UNCHANGED <<sent, previous_heartbeat, unacked>>
       ELSE /\ sent' = Append(sent, Heartbeat)
            /\ previous_heartbeat' = now
            /\ unacked' = IF unacked = None THEN now ELSE unacked
            /\ tasks' = [tasks EXCEPT ![i].wake = now + HeartbeatDelay(tasks[i].interval)]
    /\ UNCHANGED <<now, ticks, socks, cur, ws_connected, sequence, session_id,
                   latency, buffer, zlib, sink, rx, reconnects, wire,
                   mobile_status, cache>>

\* ---------------------------------------------- keep_alive_check (227-234)
\* The sleep of line 229 ended: the staleness test, then either the close
\* and reconnect of 233-234 or the loop test of line 228.  When the loop
\* test fails every enclosing start / error_reconnect / keep_alive_check
\* frame returns, and a read_websocket underneath ends too (its socket is
\* closed and ws_connected is False).
keep_alive_check(i) ==
    /\ tasks[i].pc = "keep_alive"
    /\ tasks[i].wake <= now
    /\ IF Stale(previous_heartbeat, now)
       THEN IF WsCloseReturns
            THEN /\ tasks' = [tasks EXCEPT ![i] = Reconnecting(i)]
                 /\ ws_connected' = FALSE
                 /\ reconnects' = Append(reconnects,
                                         Reconnect(ReconnectCode, "keep_alive_check"))
                 /\ UNCHANGED socks
            ELSE /\ tasks' = [tasks EXCEPT ![i].pc = "closing", ![i].cl = cur,
                                           ![i].wake = 0]
                 /\ socks' = WsClosing(ReconnectCode)
                 /\ UNCHANGED <<ws_connected, reconnects>>
       ELSE /\ tasks' = [tasks EXCEPT ![i] =
                            IF ws_connected
                            THEN [@ EXCEPT !.wake = now + KeepAliveSleep]
                            ELSE Done]
            /\ UNCHANGED <<socks, ws_connected, reconnects>>
    /\ UNCHANGED <<now, ticks, cur, sequence, session_id, previous_heartbeat,
                   latency, buffer, zlib, sent, sink, rx, unacked, wire,
                   mobile_status, cache>>

\* which method awaits the close a task is suspended in
ClosingBy(pc) ==
    IF pc = "closing" THEN "keep_alive_check" ELSE "_validate_opcode"

\* The closing handshake of line 218 or 233 ended (the peer echoes the
\* code), then error_reconnect(4000) up to the ws_connect of start
error_reconnect(i) ==
    /\ tasks[i].pc \in {"closing", "closing_session"}
    /\ socks' = [socks EXCEPT ![tasks[i].cl].close_code = socks[tasks[i].cl].local_code]
    /\ ws_connected' = FALSE
    /\ tasks' = [tasks EXCEPT ![i] = Reconnecting(i)]
    /\ reconnects' = Append(reconnects,
                            Reconnect(ReconnectCode, ClosingBy(tasks[i].pc)))
    /\ UNCHANGED <<now, ticks, cur, sequence, session_id, previous_heartbeat,
                   latency, buffer, zlib, sent, sink, rx, unacked, wire,
                   mobile_status, cache>>

\* close (276-285), after the closing handshake of line 283: buffer.clear()
close(i) ==
    /\ tasks[i].pc = "close"
    /\ socks' = [socks EXCEPT ![tasks[i].cl].close_code = socks[tasks[i].cl].local_code]
    /\ buffer' = <<>>
    /\ tasks' = [tasks EXCEPT ![i].pc = "receive", ![i].cl = 0]
    /\ UNCHANGED <<now, ticks, cur, ws_connected, sequence, session_id,
                   previous_heartbeat, latency, zlib, sent, sink, rx,
                   reconnects, unacked, wire, mobile_status, cache>>

\* ------------------------------------------------------------------ clock
\* the clock moves to the next timer once no task is ready
Timers == {tasks[i].wake : i \in {j \in DOMAIN tasks : tasks[j].pc \in TimerPcs}}

Advance ==
    /\ ticks < MaxAdvance
    /\ Timers # {}
    /\ \A i \in DOMAIN tasks : ~Ready(i)
    /\ now' = CHOOSE t \in Timers : \A u \in Timers : t <= u
    /\ ticks' = ticks + 1
    /\ UNCHANGED <<socks, cur, ws_connected, sequence, session_id,
                   previous_heartbeat, latency, buffer, zlib, tasks, sent, sink,
                   rx, reconnects, unacked, wire, mobile_status, cache>>

\* ------------------------------------------------------ the specification
\* the frames the server sends as text
Frames ==
    {Envelope(HELLO, 41250, None, Null),
     Envelope(DISPATCH, 101, 1, "READY"),
     Envelope(DISPATCH, 102, 2, "MESSAGE_CREATE"),
     Envelope(HEARTBEAT_ACK, None, None, Null),
     Envelope(INVALID_SESSION, 0, None, Null),
     Envelope(RECONNECT, None, None, Null)}

Text(body) == [bytes |-> FALSE, body |-> body]
Bytes(body) == [bytes |-> TRUE, body |-> body]

CloseCodes == {ResumeCode}

\* the server sends at most MaxFrames frames, a closing frame included
MayReceive == Len(rx) < MaxFrames

Next ==
    \/ \E i \in DOMAIN tasks : start(i)
    \/ \E i \in DOMAIN tasks : read_websocket(i)
    \/ \E i \in DOMAIN tasks : SeesClosed(i)
    \/ \E i \in DOMAIN tasks, f \in Frames :
          MayReceive /\ Receive(i, Text(f)) /\ UNCHANGED wire
    \/ \E i \in DOMAIN tasks, c \in CloseCodes : MayReceive /\ RemoteClose(i, c)
    \/ \E i \in DOMAIN tasks : DispatchReturns(i)
    \/ \E i \in DOMAIN tasks : send_hello(i)
    \/ \E i \in DOMAIN tasks : send_heartbeat(i)
    \/ \E i \in DOMAIN tasks : keep_alive_check(i)
    \/ \E i \in DOMAIN tasks : error_reconnect(i)
    \/ \E i \in DOMAIN tasks : close(i)
    \/ Advance

Spec == Init /\ [][Next]_vars

\* --------------------------------------- error_reconnect called on its own
\* how many times a caller outside the gateway calls error_reconnect
MaxCalls == 1

\* resume_connection (256-267): nothing on a closed socket, else RESUME on
\* the socket websocket_connection names
Resume ==
    Sent(create_payload(RESUME,
                        [token |-> raw_payload.token, session_id |-> session_id,
                         seq |-> sequence],
                        None, Null))

resume_connection ==
    IF socks[cur].closed THEN sent ELSE Append(sent, Resume)

Calls == SelectSeq(reconnects, LAMBDA r : r.by = "caller")

\* error_reconnect(code) (179-186) awaited by a task of its own, up to its
\* return (line 183) or to the ws_connect of start (line 186)
call_error_reconnect(code) ==
    /\ cur # 0
    /\ Len(Calls) < MaxCalls
    /\ reconnects' = Append(reconnects, Reconnect(code, "caller"))
    /\ IF code = ResumeCode
       THEN /\ sent' = resume_connection
            /\ UNCHANGED <<ws_connected, tasks>>
       ELSE /\ ws_connected' = FALSE
            /\ tasks' = Append(tasks, Task("ws_connect", 0, 0, 0, 0))
            /\ UNCHANGED sent
    /\ UNCHANGED <<now, ticks, socks, cur, sequence, session_id,
                   previous_heartbeat, latency, buffer, zlib, sink, rx,
                   unacked, wire, mobile_status, cache>>

CallCodes == {ResumeCode, ReconnectCode}

\* The runs in which error_reconnect is called before the first sleep of
\* keep_alive_check ends: the clock does not move.
NextCalls ==
    \/ \E c \in CallCodes : call_error_reconnect(c)
    \/ \E i \in DOMAIN tasks : start(i)
    \/ \E i \in DOMAIN tasks : read_websocket(i)
    \/ \E i \in DOMAIN tasks : SeesClosed(i)
    \/ \E i \in DOMAIN tasks, f \in Frames :
          MayReceive /\ Receive(i, Text(f)) /\ UNCHANGED wire
    \/ \E i \in DOMAIN tasks : DispatchReturns(i)
    \/ \E i \in DOMAIN tasks : send_hello(i)
    \/ \E i \in DOMAIN tasks : send_heartbeat(i)
    \/ \E i \in DOMAIN tasks : error_reconnect(i)
    \/ \E i \in DOMAIN tasks : close(i)

SpecCalls == Init /\ [][NextCalls]_vars

\* ------------------------------------- the decompressor fed chunk by chunk
\* how many cuts the server makes inside the messages of one run
MaxCuts == 2
\* how many compressed messages the server sends in one run
MaxMsgs == 2

\* the compressed stream of the messages fs, the first deflated at position ctx
RECURSIVE Stream(_, _)
Stream(fs, ctx) ==
    IF fs = <<>> THEN <<>>
    ELSE Deflate(Head(fs), ctx) \o Stream(Tail(fs), ctx + 1)

\* b cut after every position of P, from position `from` on
RECURSIVE ChunksFrom(_, _, _)
ChunksFrom(b, P, from) ==
    IF from > Len(b) THEN <<>>
    ELSE LET ahead == {p \in P : p >= from}
             upto == IF ahead = {} THEN Len(b)
                     ELSE CHOOSE p \in ahead : \A q \in ahead : p <= q
         IN <<SubSeq(b, from, upto)>> \o ChunksFrom(b, P, upto + 1)

\* Every message ends a chunk (a websocket frame never holds bytes of two
\* messages); inside the messages the server cuts anywhere.
Boundaries(n) == {MsgLen * k : k \in 1..n}
Scripts ==
    {[msgs |-> fs, chunks |-> ChunksFrom(Stream(fs, 0), P \cup Boundaries(Len(fs)), 1)] :
        fs \in UNION {[1..n -> DOMAIN Catalog] : n \in 1..MaxMsgs},
        P \in {Q \in SUBSET (1..(MsgLen * MaxMsgs)) : Cardinality(Q) <= MaxCuts}}

\* The state start() and the first run of read_websocket leave: the socket
\* open, IDENTIFY sent, the liveness monitor asleep, the read loop waiting
InitChunks ==
    /\ ticks = 0
    /\ now = 0
    /\ socks = <<Socket>>
    /\ cur = 1
    /\ ws_connected = TRUE
    /\ sequence = None
    /\ session_id = None
    /\ previous_heartbeat = 0
    /\ latency = None
    /\ buffer = <<>>
    /\ zlib = decompressobj(1)
    /\ sent = <<[sock |-> 1, data |-> create_payload(IDENTIFY, identify_payload, None, Null),
                 at |-> 0, sequence |-> None, session_id |-> None,
                 mobile |-> FALSE]>>
    /\ sink = <<>>
    /\ rx = <<>>
    /\ reconnects = <<>>
    /\ unacked = None
    /\ mobile_status = FALSE
    /\ cache = <<>>
    /\ tasks = <<Task("keep_alive", 0, 0, KeepAliveSleep, 0),
                 Task("receive", 1, 0, 0, 0)>>
    /\ wire \in Scripts

\* the server delivers its next chunk as a binary frame
Feed(i) ==
    /\ wire.chunks # <<>>
    /\ Receive(i, Bytes(Head(wire.chunks)))
    /\ wire' = [wire EXCEPT !.chunks = Tail(@)]

NextChunks ==
    \/ \E i \in DOMAIN tasks : Feed(i)
    \/ \E i \in DOMAIN tasks : DispatchReturns(i)
    \/ \E i \in DOMAIN tasks : send_hello(i)
    \/ \E i \in DOMAIN tasks : send_heartbeat(i)

SpecChunks == InitChunks /\ [][NextChunks]_vars

\* ------------------------------------------------ close called on its own
\* the codes a caller outside the gateway closes with
CloseCallCodes == {1000}

\* the calls of close made from outside: awaiting the socket, and returned
UserCloses == {i \in DOMAIN tasks : tasks[i].pc \in {"user_close", "user_closed"}}

\* close(code) (276-285) awaited by a task of its own, up to the await of
\* line 283: it returns at line 280 when no connection was ever opened, and
\* runs through to its end when the socket is closed already
call_close(code) ==
    /\ Cardinality(UserCloses) < MaxCalls
    /\ IF cur = 0
       THEN /\ tasks' = Append(tasks, Task("user_closed", 0, 0, 0, code))
            /\ UNCHANGED <<ws_connected, socks, buffer>>
       ELSE /\ ws_connected' = FALSE
            /\ IF WsCloseReturns
               THEN /\ tasks' = Append(tasks, Task("user_closed", 0, cur, 0, code))
                    /\ buffer' = <<>>
                    /\ UNCHANGED socks
               ELSE /\ tasks' = Append(tasks, Task("user_close", 0, cur, 0, code))
                    /\ socks' = WsClosing(code)
                    /\ UNCHANGED buffer
    /\ UNCHANGED <<now, ticks, cur, sequence, session_id, previous_heartbeat,
                   latency, zlib, sent, sink, rx, reconnects, unacked, wire,
                   mobile_status, cache>>

\* the closing handshake of line 283 ended: buffer.clear() and the return
close_returns(i) ==
    /\ tasks[i].pc = "user_close"
    /\ socks' = [socks EXCEPT ![tasks[i].cl].close_code = socks[tasks[i].cl].local_code]
    /\ buffer' = <<>>
    /\ tasks' = [tasks EXCEPT ![i].pc = "user_closed"]
    /\ UNCHANGED <<now, ticks, cur, ws_connected, sequence, session_id,
                   previous_heartbeat, latency, zlib, sent, sink, rx,
                   reconnects, unacked, wire, mobile_status, cache>>

\* the frames the server sends while close is called
FramesClose ==
    {Envelope(HELLO, 41250, None, Null),
     Envelope(DISPATCH, 101, 1, "READY")}

NextClose ==
    \/ \E c \in CloseCallCodes : call_close(c)
    \/ \E i \in DOMAIN tasks : close_returns(i)
    \/ \E i \in DOMAIN tasks : start(i)
    \/ \E i \in DOMAIN tasks : read_websocket(i)
    \/ \E i \in DOMAIN tasks : SeesClosed(i)
    \/ \E i \in DOMAIN tasks, f \in FramesClose :
          MayReceive /\ Receive(i, Text(f)) /\ UNCHANGED wire
    \/ \E i \in DOMAIN tasks : DispatchReturns(i)
    \/ \E i \in DOMAIN tasks : send_hello(i)
    \/ \E i \in DOMAIN tasks : send_heartbeat(i)
    \/ \E i \in DOMAIN tasks : keep_alive_check(i)
    \/ \E i \in DOMAIN tasks : error_reconnect(i)
    \/ Advance

SpecClose == Init /\ [][NextClose]_vars

\* ------------------------------------------------- frames that fail
\* The kinds of frame a script is made of, and the frame of each kind when
\* ctx well-formed compressed messages were sent before it:
\*   json      a text that is no JSON document
\*   no_s      a DISPATCH envelope without its "s" member
\*   opcode    an opcode that is no member of OpCode
\*   null_s    a DISPATCH whose "s" is null
\*   dispatch  a well-formed DISPATCH sent as text
\*   zbad      a complete binary message that is no deflate data
\*   zdispatch a well-formed DISPATCH, compressed
Kinds == {"json", "no_s", "opcode", "null_s", "dispatch", "zbad", "zdispatch"}

Frame(kind, ctx) ==
    CASE kind = "json" -> Text(InvalidText)
      [] kind = "no_s" -> Text(<<<<"op", DISPATCH>>, <<"d", 101>>, <<"t", "READY">>>>)
      [] kind = "opcode" -> Text(Envelope(5, None, None, Null))
      [] kind = "null_s" -> Text(Envelope(DISPATCH, 101, None, "READY"))
      [] kind = "dispatch" -> Text(Envelope(DISPATCH, 101, 1, "READY"))
      [] kind = "zbad" -> Bytes(<<16, 32 + ctx>> \o ZLIB_SUFFIX)
      [] kind = "zdispatch" -> Bytes(Deflate(2, ctx))

\* the frames of a script of kinds; the server's deflate stream moves on
\* with every well-formed compressed message
RECURSIVE FramesOf(_, _)
FramesOf(kinds, ctx) ==
    IF kinds = <<>> THEN <<>>
    ELSE <<Frame(Head(kinds), ctx)>>
            \o FramesOf(Tail(kinds), IF Head(kinds) = "zdispatch" THEN ctx + 1 ELSE ctx)

ErrorScripts ==
    {[msgs |-> FramesOf(ks, 0), chunks |-> FramesOf(ks, 0)] :
        ks \in UNION {[1..n -> Kinds] : n \in 1..MaxFrames}}

\* The state start() and the first run of read_websocket leave, as InitChunks
InitErrors ==
    /\ ticks = 0
    /\ now = 0
    /\ socks = <<Socket>>
    /\ cur = 1
    /\ ws_connected = TRUE
    /\ sequence = None
    /\ session_id = None
    /\ previous_heartbeat = 0
    /\ latency = None
    /\ buffer = <<>>
    /\ zlib = decompressobj(1)
    /\ sent = <<[sock |-> 1, data |-> create_payload(IDENTIFY, identify_payload, None, Null),
                 at |-> 0, sequence |-> None, session_id |-> None,
                 mobile |-> FALSE]>>
    /\ sink = <<>>
    /\ rx = <<>>
    /\ reconnects = <<>>
    /\ unacked = None
    /\ mobile_status = FALSE
    /\ cache = <<>>
    /\ tasks = <<Task("keep_alive", 0, 0, KeepAliveSleep, 0),
                 Task("receive", 1, 0, 0, 0)>>
    /\ wire \in ErrorScripts

\* the server delivers the next frame of its script
FeedFrame(i) ==
    /\ wire.chunks # <<>>
    /\ Receive(i, Head(wire.chunks))
    /\ wire' = [wire EXCEPT !.chunks = Tail(@)]

NextErrors ==
    \/ \E i \in DOMAIN tasks : FeedFrame(i)
    \/ \E i \in DOMAIN tasks : DispatchReturns(i)

SpecErrors == InitErrors /\ [][NextErrors]_vars

\* ---------------------- a fresh connect while the old socket is still open
\* error_reconnect(4000) called from outside closes nothing (184-186): the
\* read task of connection 1 keeps iterating its socket while start() opens
\* connection 2.  The server sends the script of `wire` on connection 1 and
\* whole compressed messages on the later connections.
InitFresh ==
    /\ InitGateway
    /\ now \in ClockOrigins
    /\ tasks = <<Task("ws_connect", 0, 0, 0, 0)>>
    /\ wire \in Scripts

\* the next chunk of the script arrives on connection 1
FeedOld(i) ==
    /\ tasks[i].it = 1
    /\ Feed(i)

\* the frames received so far on socket c
FramesOn(c) == SelectSeq(rx, LAMBDA r : r.sock = c)

\* a whole message arrives on a later connection, deflated at the position
\* the server's stream of that connection has reached
FeedNew(i, f) ==
    /\ tasks[i].it > 1
    /\ MayReceive
    /\ Receive(i, Bytes(Deflate(f, Len(FramesOn(tasks[i].it)))))
    /\ UNCHANGED wire

NextFresh ==
    \/ call_error_reconnect(ReconnectCode)
    \/ \E i \in DOMAIN tasks : start(i)
    \/ \E i \in DOMAIN tasks : read_websocket(i)
    \/ \E i \in DOMAIN tasks : FeedOld(i)
    \/ \E i \in DOMAIN tasks, f \in DOMAIN Catalog : FeedNew(i, f)
    \/ \E i \in DOMAIN tasks : DispatchReturns(i)
    \/ \E i \in DOMAIN tasks : send_hello(i)
    \/ \E i \in DOMAIN tasks : send_heartbeat(i)

SpecFresh == InitFresh /\ [][NextFresh]_vars

\* --------------------------------------------- frames no case handles
\* The opcodes _validate_opcode has a case for (210-225)
Handled == {DISPATCH, INVALID_SESSION, HELLO, HEARTBEAT_ACK, RECONNECT}

\* Frames with an integer that is no member of OpCode (5, 12), with members
\* of OpCode that no case handles (HEARTBEAT, IDENTIFY), and the frames that
\* set the sequence, the heartbeat chain and the latency
FramesUnhandled ==
    {Envelope(5, None, None, Null),
     Envelope(12, 7, 3, "READY"),
     Envelope(HEARTBEAT, None, None, Null),
     Envelope(IDENTIFY, 7, 3, "READY"),
     Envelope(HELLO, 41250, None, Null),
     Envelope(DISPATCH, 101, 1, "READY"),
     Envelope(HEARTBEAT_ACK, None, None, Null)}

NextUnhandled ==
    \/ \E i \in DOMAIN tasks : start(i)
    \/ \E i \in DOMAIN tasks : read_websocket(i)
    \/ \E i \in DOMAIN tasks : SeesClosed(i)
    \/ \E i \in DOMAIN tasks, f \in FramesUnhandled :
          MayReceive /\ Receive(i, Text(f)) /\ UNCHANGED wire
    \/ \E i \in DOMAIN tasks : DispatchReturns(i)
    \/ \E i \in DOMAIN tasks : send_hello(i)
    \/ \E i \in DOMAIN tasks : send_heartbeat(i)
    \/ \E i \in DOMAIN tasks : keep_alive_check(i)
    \/ \E i \in DOMAIN tasks : error_reconnect(i)
    \/ Advance

SpecUnhandled == Init /\ [][NextUnhandled]_vars

\* ------------------------------------------- the identify descriptor
\* the mobile_status setter (337-339), called from outside at any moment
set_mobile_status(value) ==
    /\ mobile_status # value
    /\ mobile_status' = value
    /\ UNCHANGED <<now, ticks, socks, cur, ws_connected, sequence, session_id,
                   previous_heartbeat, latency, buffer, zlib, tasks, sent, sink,
                   rx, reconnects, unacked, wire, cache>>

\* the frames that make the client reconnect and identify again
FramesIdentify ==
    {Envelope(HELLO, 41250, None, Null),
     Envelope(INVALID_SESSION, 0, None, Null)}

NextIdentify ==
    \/ \E value \in BOOLEAN : set_mobile_status(value)
    \/ \E i \in DOMAIN tasks : start(i)
    \/ \E i \in DOMAIN tasks : read_websocket(i)
    \/ \E i \in DOMAIN tasks : SeesClosed(i)
    \/ \E i \in DOMAIN tasks, f \in FramesIdentify :
          MayReceive /\ Receive(i, Text(f)) /\ UNCHANGED wire
    \/ \E i \in DOMAIN tasks : send_hello(i)
    \/ \E i \in DOMAIN tasks : send_heartbeat(i)
    \/ \E i \in DOMAIN tasks : keep_alive_check(i)
    \/ \E i \in DOMAIN tasks : error_reconnect(i)
    \/ Advance

SpecIdentify == Init /\ [][NextIdentify]_vars

\* ------------------------------------------- the steps of a DISPATCH
\* DISPATCH frames that are well formed, that fail at int(sequence) (line
\* 211) and that fail at the cache update (line 215)
FramesDispatch ==
    {Envelope(DISPATCH, 101, 1, "READY"),
     Envelope(DISPATCH, 102, 2, "MESSAGE_CREATE"),
     Envelope(DISPATCH, 103, None, "MESSAGE_CREATE"),
     Envelope(DISPATCH, None, 3, "MESSAGE_CREATE")}

NextDispatch ==
    \/ \E i \in DOMAIN tasks : start(i)
    \/ \E i \in DOMAIN tasks : read_websocket(i)
    \/ \E i \in DOMAIN tasks : SeesClosed(i)
    \/ \E i \in DOMAIN tasks, f \in FramesDispatch :
          MayReceive /\ Receive(i, Text(f)) /\ UNCHANGED wire
    \/ \E i \in DOMAIN tasks : DispatchReturns(i)
    \/ \E i \in DOMAIN tasks : keep_alive_check(i)
    \/ \E i \in DOMAIN tasks : error_reconnect(i)
    \/ Advance

SpecDispatch == Init /\ [][NextDispatch]_vars

\* ================================================================= claims
\* the DISPATCH frames received on socket c, and the sink calls made for it
DispatchesOn(c) == SelectSeq(rx, LAMBDA e : e.sock = c /\ e.op = DISPATCH)
SinkOn(c) == SelectSeq(sink, LAMBDA e : e.sock = c)

\* the calls of event_controller.dispatch that have not returned
InDispatch == {i \in DOMAIN tasks : tasks[i].pc = "dispatch"}

\* C1: on every connection the event sink is called exactly once per DISPATCH
\* frame received, with the frame's event name and payload, in arrival order,
\* and no call starts while another call is still in progress.
C1_SinkContract ==
    /\ \A c \in DOMAIN socks :
          /\ Len(SinkOn(c)) = Len(DispatchesOn(c))
          /\ \A k \in DOMAIN SinkOn(c) :
                /\ SinkOn(c)[k].event = DispatchesOn(c)[k].t
                /\ SinkOn(c)[k].payload = DispatchesOn(c)[k].d
    /\ Cardinality(InDispatch) <= 1

\* how many bytes of the script have been delivered
RECURSIVE Bytecount(_)
Bytecount(chunks) ==
    IF chunks = <<>> THEN 0 ELSE Len(Head(chunks)) + Bytecount(Tail(chunks))
Delivered == MsgLen * Len(wire.msgs) - Bytecount(wire.chunks)

\* what on_websocket_message decodes when the messages fs arrive unsplit, one
\* whole message per call, on a new connection
RECURSIVE Unsplit(_, _, _, _)
Unsplit(fs, ctx, buf, z) ==
    IF fs = <<>> THEN <<>>
    ELSE LET m == on_websocket_message(buf, z, Bytes(Deflate(Head(fs), ctx))) IN
         (IF m.status = "ok" THEN <<m.received_data>> ELSE <<>>)
            \o Unsplit(Tail(fs), ctx + 1, m.buffer, m.zlib)

\* the frames decoded so far, as the fields rx keeps
Decoded == SelectSeq(rx, LAMBDA e : e.op # None)
SameFrame(e, dict) ==
    /\ e.op = dict["op"] /\ e.s = dict["s"] /\ e.t = dict["t"] /\ e.d = dict["d"]

\* C2: however the messages are cut into chunks, once the last chunk of a
\* message has been delivered the frames decoded are exactly those decoded
\* when the messages arrive unsplit.
C2_ChunkedEqualsUnsplit ==
    wire.msgs # <<>> =>
        LET whole == Unsplit(SubSeq(wire.msgs, 1, Delivered \div MsgLen), 0,
                             <<>>, decompressobj(1))
        IN /\ Len(Decoded) = Len(whole)
           /\ \A k \in DOMAIN whole : SameFrame(Decoded[k], whole[k])

\* the opcode and the d member of a frame the client wrote
OpOf(e) == json_loads(e.data)["op"]
DataOf(e) == json_loads(e.data)["d"]
SentOn(c, op) == SelectSeq(sent, LAMBDA e : e.sock = c /\ OpOf(e) = op)

NonDecreasing(q) == \A j, k \in DOMAIN q : j <= k => q[j].s <= q[k].s

\* C3: while the connection is not replaced, the stored sequence never
\* decreases and the sequence numbers handed to the event sink for one
\* connection never decrease.
C3_SequenceMonotone ==
    [][cur' = cur =>
          /\ sequence' >= sequence
          /\ \A c \in DOMAIN socks' : NonDecreasing(SinkOn(c)')]_vars

\* C4: on a connection opened by a reconnect that did not resume, the stored
\* sequence is None as long as no DISPATCH of that connection was processed.
C4_FreshReconnectResets ==
    (cur > 1 /\ DispatchesOn(cur) = <<>>) => sequence = None

\* C5: the IDENTIFY that follows an INVALID_SESSION frame is sent with
\* session_id and sequence both None.
C5_InvalidSessionClears ==
    \A j \in DOMAIN rx : rx[j].op = INVALID_SESSION =>
        \A k \in DOMAIN sent :
            (OpOf(sent[k]) = IDENTIFY /\ sent[k].sock = rx[j].sock + 1) =>
                (sent[k].session_id = None /\ sent[k].sequence = None)

\* the monitors asleep in keep_alive_check
Monitors == {i \in DOMAIN tasks : tasks[i].pc = "keep_alive"}

\* the reconnects a monitor made more than 60 s after the send of a
\* heartbeat that was not acknowledged
StaleReconnects ==
    SelectSeq(reconnects, LAMBDA r : /\ r.by = "keep_alive_check"
                                     /\ r.unacked # None
                                     /\ r.at > r.unacked + OneMinute)

\* C6 (not zero): no monitor goes back to sleep after a poll made more than
\* 60 s after the send of a heartbeat that is still unacknowledged.
C6_NotZero ==
    \A i \in Monitors :
        unacked # None => ~(tasks[i].wake - KeepAliveSleep > unacked + OneMinute)

\* C6 (not two): no two such reconnects are made from the same connection.
C6_NotTwo ==
    \A j, k \in DOMAIN StaleReconnects :
        j < k => StaleReconnects[j].sock # StaleReconnects[k].sock

\* C6: more than 60 s after the send of a heartbeat that was not
\* acknowledged, the liveness monitor has reconnected, and exactly once.
C6_LivenessReconnectsOnce == C6_NotZero /\ C6_NotTwo

\* the HELLO frames processed on socket c
HellosOn(c) == SelectSeq(rx, LAMBDA e : e.sock = c /\ e.op = HELLO)

\* C7: on a connection that received one HELLO, with interval I, the first
\* heartbeat is sent less than I ms after the HELLO and, while the socket is
\* open, successive heartbeats are I ms apart.
C7_HeartbeatCadence ==
    \A c \in DOMAIN socks : Len(HellosOn(c)) = 1 =>
        LET hello == HellosOn(c)[1]
            beats == SentOn(c, HEARTBEAT)
        IN /\ beats # <<>> => beats[1].at < hello.at + hello.d
           /\ (now >= hello.at + hello.d /\ ~socks[c].closed) => beats # <<>>
           /\ \A k \in DOMAIN beats :
                 k > 1 => beats[k].at = beats[k - 1].at + hello.d

\* C8: the d member of every HEARTBEAT written is the sequence stored when it
\* was written.
C8_HeartbeatCarriesSequence ==
    \A k \in DOMAIN sent :
        OpOf(sent[k]) = HEARTBEAT => DataOf(sent[k]) = sent[k].sequence

\* every task has ended: nothing can run any more
Quiescent == \A i \in DOMAIN tasks : tasks[i].pc = "done"

Handshakes(c) ==
    SelectSeq(sent, LAMBDA e : e.sock = c /\ OpOf(e) \in {IDENTIFY, RESUME})

\* C9: the client does not come to rest after a RECONNECT frame without
\* having sent a handshake on a connection opened after it.
C9_ReconnectFrameReconnects ==
    \A j \in DOMAIN rx : (rx[j].op = RECONNECT /\ Quiescent) =>
        \E c \in DOMAIN socks : c > rx[j].sock /\ Handshakes(c) # <<>>

\* C10: a RESUME is only written on a connection opened after the reconnect
\* that wrote it began, and a reconnect with the resumable code that has
\* returned has written a RESUME on such a connection.
C10_ResumeOnNewConnection ==
    /\ \A k \in DOMAIN sent : OpOf(sent[k]) = RESUME =>
          \E j \in DOMAIN reconnects :
              /\ reconnects[j].code = ResumeCode
              /\ reconnects[j].sock < sent[k].sock
    /\ \A j \in DOMAIN reconnects : reconnects[j].code = ResumeCode =>
          \E c \in DOMAIN socks : c > reconnects[j].sock /\ SentOn(c, RESUME) # <<>>

\* the closes of socket c by the server, as rx keeps them: d is the close code
RemoteCloses(c) ==
    SelectSeq(rx, LAMBDA e : e.sock = c /\ e.op = None /\ e.d # None)

\* C13: a reconnect made from a connection the server closed is made with the
\* close code observed on that socket, so that the code decides between
\* resume and fresh identify.
C13_CloseCodeDecidesReconnect ==
    \A j \in DOMAIN reconnects :
        RemoteCloses(reconnects[j].sock) # <<>> =>
            reconnects[j].code = RemoteCloses(reconnects[j].sock)[1].d

\* the calls of the event sink that were not made for a DISPATCH frame
Notifications ==
    {k \in DOMAIN sink :
        \A j \in DOMAIN rx :
            ~(/\ rx[j].op = DISPATCH
              /\ rx[j].sock = sink[k].sock
              /\ rx[j].t = sink[k].event
              /\ rx[j].d = sink[k].payload)}

\* the close and reconnect transitions made so far: the calls of
\* error_reconnect, the sockets closed by either side
Transitions ==
    Len(reconnects) + Cardinality({c \in DOMAIN socks : socks[c].closed})

\* C14: once a close or a reconnect transition was made, the event sink has
\* been called with a notification that is not a DISPATCH event.
C14_TransitionsNotified ==
    Transitions > 0 => Notifications # {}

\* C16: a handshake message is written on a connection only after that
\* connection's HELLO was received, and at most one per connection.
C16_HandshakeAnswersHello ==
    \A c \in DOMAIN socks :
        /\ Handshakes(c) # <<>> => HellosOn(c) # <<>>
        /\ Len(Handshakes(c)) <= 1

\* C15: a heartbeat chain only ever writes to the socket whose HELLO started
\* it: the chain of a connection that was replaced has stopped and never
\* sends on the replacement socket.
C15_OneHeartbeatLoop ==
    [][\A i \in DOMAIN tasks :
          (/\ tasks[i].pc = "send_heartbeat"
           /\ Len(sent') > Len(sent)
           /\ tasks'[i].wake # tasks[i].wake)
              => tasks[i].it = sent'[Len(sent')].sock]_vars

\* the INVALID_SESSION frames processed
InvalidSessions == SelectSeq(rx, LAMBDA e : e.op = INVALID_SESSION)

\* C17: the socket an INVALID_SESSION frame arrived on is closed, and every
\* handshake message written after the frame is an IDENTIFY on a connection
\* opened after it, whatever the frame's resumable flag; no RESUME follows.
C17_InvalidSessionIdentifies ==
    [][/\ \A j \in DOMAIN InvalidSessions' : socks'[InvalidSessions'[j].sock].closed
       /\ (/\ InvalidSessions # <<>>
           /\ Len(sent') > Len(sent)
           /\ OpOf(sent'[Len(sent')]) \in {IDENTIFY, RESUME})
              => /\ OpOf(sent'[Len(sent')]) = IDENTIFY
                 /\ \A j \in DOMAIN InvalidSessions :
                       sent'[Len(sent')].sock > InvalidSessions[j].sock]_vars

\* C19: the call that appends the next chunk treats the message as complete
\* exactly when the whole buffer, chunk included, ends in 00 00 FF FF;
\* otherwise it returns and keeps the buffered bytes.
C19_CompleteIffBufferEndsInMarker ==
    wire.chunks # <<>> =>
        LET whole == buffer \o Head(wire.chunks)
            m == on_websocket_message(buffer, zlib, Bytes(Head(wire.chunks)))
        IN /\ (m.status # "return") <=>
                 (Len(whole) >= SuffixLen /\ Last4(whole) = ZLIB_SUFFIX)
           /\ m.status = "return" => m.buffer = whole

\* the frames of the script that failed: no opcode was read, the opcode is
\* no member of OpCode, or the DISPATCH had no sequence
Failed ==
    {k \in DOMAIN rx :
        rx[k].op = None \/ rx[k].op \notin OpCode \/ (rx[k].op = DISPATCH /\ rx[k].s = None)}

\* C12: whatever frames failed, the socket is open, the connected flag is
\* true, the read loop is alive on the socket, and every well-formed text
\* DISPATCH delivered, also after a failed frame, reached the event sink.
C12_FrameErrorsAreNotFatal ==
    /\ ~socks[cur].closed
    /\ ws_connected
    /\ \E i \in DOMAIN tasks :
          tasks[i].it = cur /\ tasks[i].pc \in {"receive", "dispatch"}
    /\ \A k \in DOMAIN rx :
          wire.msgs[k] = Frame("dispatch", 0) =>
              /\ rx[k].op = DISPATCH
              /\ Len(SinkOn(cur)) >= Cardinality({j \in 1..k : wire.msgs[j] = Frame("dispatch", 0)})

\* a malformed compressed message and a frame with an unknown opcode failed,
\* and the DISPATCH that followed them reached the sink
C12_Witness ==
    /\ Len(rx) = 3
    /\ wire.msgs[1] = Frame("zbad", 0) /\ 1 \in Failed
    /\ wire.msgs[2] = Frame("opcode", 0) /\ 2 \in Failed
    /\ wire.msgs[3] = Frame("dispatch", 0)
    /\ Len(sink) = 1

\* is the k-th frame of the script a complete binary message, a well-formed one
Binary(k) == wire.msgs[k].bytes
WellFormed(k) == Binary(k) /\ (wire.msgs[k].body[1] - 16) \in DOMAIN Catalog

\* C18: right after a complete binary message failed to decompress the
\* buffer is empty, and every well-formed compressed message delivered, also
\* after a failed one, was decoded as the DISPATCH it holds.
C18_BadMessageIsDropped ==
    \A k \in DOMAIN rx :
        /\ (k = Len(rx) /\ Binary(k) /\ rx[k].op = None) => buffer = <<>>
        /\ WellFormed(k) => (rx[k].op = DISPATCH /\ rx[k].t = "READY")

\* C11: when a close(code) called on an open socket returns, that socket is
\* closed with the code given, the buffer is empty and the connected flag is
\* false; a close called before any connection was opened changes nothing.
C11_CloseContract ==
    [][/\ \A i \in DOMAIN tasks :
             (tasks[i].pc = "user_close" /\ tasks'[i].pc = "user_closed") =>
                 /\ socks'[tasks[i].cl].closed
                 /\ socks'[tasks[i].cl].local_code = tasks[i].interval
                 /\ buffer' = <<>>
                 /\ ~ws_connected'
       /\ (/\ cur = 0
           /\ Len(tasks') > Len(tasks)
           /\ tasks'[Len(tasks')].pc = "user_closed") =>
             UNCHANGED <<socks, cur, ws_connected, sequence, session_id,
                         previous_heartbeat, latency, buffer, zlib, sent>>]_vars

\* C20: on every fresh connect the receive buffer is empty and the inflate
\* stream is a new one before the first frame of the new connection is
\* processed: as long as no frame has been received on the socket in use,
\* the buffer holds no byte and the stream is the untouched one start() made
\* for that socket.
C20_FreshConnectResetsDecompressor ==
    (cur # 0 /\ FramesOn(cur) = <<>>) =>
        /\ buffer = <<>>
        /\ zlib = decompressobj(cur)

\* C21: every compressed message of a connection passes through the inflate
\* stream made for that connection: when a frame received on a socket is
\* inflated (the stream moves), the stream is the one start() created for
\* that socket, also when a reconnect has started while the socket's read
\* loop is running.
C21_OneStreamPerConnection ==
    [][(Len(rx') > Len(rx) /\ zlib' # zlib) => zlib.id = rx'[Len(rx')].sock]_vars

\* a frame whose opcode was read and has no case in _validate_opcode
Unhandled(e) == e.op # None /\ e.op \notin Handled

\* C22: a frame whose opcode has no handler is ignored: the step that
\* processes it leaves sequence, session_id, the connected flag and the
\* latency as they were, writes nothing, does not call the event sink, and
\* leaves every socket and every task (the read loop too) as it was.
C22_UnhandledIgnored ==
    [][(Len(rx') > Len(rx) /\ Unhandled(rx'[Len(rx')])) =>
          UNCHANGED <<sequence, session_id, ws_connected, latency, sent, sink,
                      socks, tasks>>]_vars

\* after a DISPATCH set the sequence, a frame with an integer outside OpCode
\* and a HEARTBEAT frame were processed
C22_Witness ==
    /\ Len(rx) = 3
    /\ rx[1].op = DISPATCH /\ sequence = 1
    /\ rx[2].op \notin OpCode
    /\ rx[3].op = HEARTBEAT

\* the heartbeat chains started by a HELLO of socket c that are still running
ChainsOf(c) ==
    {i \in DOMAIN tasks : tasks[i].pc = "send_heartbeat" /\ tasks[i].it = c}

\* C23: on each connection heartbeat scheduling is started once, by the
\* connection's HELLO: a HEARTBEAT is written on a socket only after a HELLO
\* was processed on it, and no socket has two heartbeat chains running.
C23_HeartbeatStartedOnceByHello ==
    \A c \in DOMAIN socks :
        /\ SentOn(c, HEARTBEAT) # <<>> => HellosOn(c) # <<>>
        /\ Cardinality(ChainsOf(c)) <= 1

\* the RESUME frames written
Resumes == SelectSeq(sent, LAMBDA e : OpOf(e) = RESUME)

\* C24: every RESUME written carries the token, a session_id that is not
\* None and, as seq, the sequence stored when it was written; none is written
\* while the stored session_id is None.
C24_ResumeCarriesSession ==
    \A k \in DOMAIN Resumes :
        /\ DataOf(Resumes[k]).token = raw_payload.token
        /\ DataOf(Resumes[k]).session_id # None
        /\ DataOf(Resumes[k]).seq = Resumes[k].sequence
        /\ Resumes[k].session_id # None

\* C25: a HEARTBEAT is written only to a socket that is open when it is
\* written, and the chain of a socket that was closed writes nothing more:
\* when a chain writes, the socket written to and the socket whose HELLO
\* started the chain are both open.
C25_NoHeartbeatAfterClose ==
    [][\A i \in DOMAIN tasks :
          (/\ tasks[i].pc = "send_heartbeat"
           /\ Len(sent') > Len(sent)
           /\ tasks'[i].wake # tasks[i].wake)
              => /\ ~socks[sent'[Len(sent')].sock].closed
                 /\ ~socks[tasks[i].it].closed]_vars

\* the IDENTIFY frames written
Identifies == SelectSeq(sent, LAMBDA e : OpOf(e) = IDENTIFY)

\* C26: every IDENTIFY written, on the first connect and on every fresh
\* reconnect, carries the descriptor built at construction, whatever
\* mobile_status was set to in between.
C26_IdentifyDescriptorFixed ==
    \A k \in DOMAIN Identifies : DataOf(Identifies[k]) = raw_payload

\* mobile_status was set between two IDENTIFYs: the second one was written
\* on a reconnect while mobile_status was True
C26_Witness ==
    /\ Len(Identifies) = 2
    /\ ~Identifies[1].mobile
    /\ Identifies[2].mobile

\* the calls of close on a connection, made from outside, that have returned
Closed == {i \in DOMAIN tasks : tasks[i].pc = "user_closed" /\ tasks[i].cl # 0}

\* C27: close is final: once a close(code) called on a connection has
\* returned, no task of the client calls error_reconnect any more, so no
\* connection is opened and no IDENTIFY written after it; a monitor that was
\* asleep during the close does not reconnect when it wakes.
C27_CloseIsFinal ==
    [][Closed # {} => reconnects' = reconnects]_vars

\* C28: at every moment at most one keep_alive_check loop is running,
\* whatever reconnects INVALID_SESSION frames and liveness timeouts caused.
C28_OneLivenessMonitor ==
    Cardinality(Monitors) <= 1

\* the read loops waiting for a frame of socket c
ReadersOf(c) == {i \in DOMAIN tasks : tasks[i].pc = "receive" /\ tasks[i].it = c}

\* C29: at most one read loop consumes the frames of a socket, and the read
\* loop of a connection never goes on to iterate the socket that replaced
\* it: a read loop waits on the same socket until it ends.
C29_OneReadLoopPerSocket ==
    [][/\ \A c \in DOMAIN socks' : Cardinality(ReadersOf(c)') <= 1
       /\ \A i \in DOMAIN tasks :
             (tasks[i].pc = "receive" /\ tasks'[i].pc = "receive") =>
                 tasks'[i].it = tasks[i].it]_vars

\* the reconnects keep_alive_check forced
Forced == SelectSeq(reconnects, LAMBDA r : r.by = "keep_alive_check")

\* C30: the liveness monitor forces a reconnect only when the last heartbeat
\* sent on the connection it gives up was sent more than 60 s before: never
\* on a connection on which no heartbeat was sent.
C30_ReconnectOnlyAfterHeartbeat ==
    \A j \in DOMAIN Forced :
        LET beats == SentOn(Forced[j].sock, HEARTBEAT) IN
        /\ beats # <<>>
        /\ beats[Len(beats)].at + OneMinute < Forced[j].at

\* the call the sink or the cache gets for the frame e
CallFor(e) == [event |-> e.t, payload |-> e.d, s |-> e.s, sock |-> e.sock]

\* C31: the step that processes a DISPATCH frame stores the sequence, then
\* updates the cache, then invokes the event sink, before any other frame is
\* read: a frame whose sequence cannot be stored changes none of the three,
\* a frame whose cache update fails leaves the sequence advanced with the
\* cache and the sink untouched, and every other frame advances the
\* sequence, reaches the cache and reaches the sink in that one step.
C31_DispatchOrder ==
    [][(Len(rx') > Len(rx) /\ rx'[Len(rx')].op = DISPATCH) =>
          LET e == rx'[Len(rx')] IN
          IF e.s = None
          THEN UNCHANGED <<sequence, cache, sink>>
          ELSE IF e.d = None
          THEN sequence' = e.s /\ UNCHANGED <<cache, sink>>
          ELSE /\ sequence' = e.s
               /\ cache' = Append(cache, CallFor(e))
               /\ sink' = Append(sink, CallFor(e))]_vars

\* a DISPATCH went through the three steps, and the cache update of a later
\* one failed: its sequence is stored and it reached neither cache nor sink
C31_Witness ==
    /\ Len(rx) = 2
    /\ rx[1].op = DISPATCH /\ rx[1].s = 1 /\ rx[1].d # None
    /\ rx[2].op = DISPATCH /\ rx[2].s = 3 /\ rx[2].d = None
    /\ sequence = 3
    /\ Len(cache) = 1 /\ Len(sink) = 1

=============================================================================
